---- MODULE Spec2Model ----
(***************************************************************************)
(* Model of app.py, the "Dashboard de Direcciones" page: one script that   *)
(* is re-run top to bottom on every interaction.  A run loads the uploaded *)
(* spreadsheet (load_data), and for a loaded Table renders four tabs:      *)
(* summary (tab1), address-column analysis (tab2), charts (tab3) and the   *)
(* filtered data view with CSV export (tab4).                              *)
(*                                                                         *)
(* Text is a sequence of characters; a character is a one-element atom     *)
(* (accented letters are written "Oacute", "oacute", ...).  A cell is a    *)
(* record: missing (NaN), text, or a number.                               *)
(***************************************************************************)
EXTENDS Integers, Sequences, FiniteSets, TLC

\* ------------------------------------------------------------------ bounds

\* Longest list of column names given to the address detector.
MaxNames == 2
\* Most rows of a column drawn cell by cell for the frequency table.
MaxFreqRows == 6
\* Most distinct values of a long column drawn for the frequency table.
MaxDistinct == 21
\* Most repetitions of the last value of a long column.
MaxRepeat == 2
\* Most rows of an uploaded Table below the slider's minimum in the script
\* runs.
MaxSmallRows == 2
\* Most rows of an uploaded Table over the slider's minimum in the script
\* runs.
MaxRowsOver == 2

\* ------------------------------------------------------------- characters

UpperChars ==
  <<"A", "B", "C", "D", "E", "I", "L", "M", "N", "O", "R", "S", "T", "U", "V",
    "Oacute", "Iacute">>

LowerChars ==
  <<"a", "b", "c", "d", "e", "i", "l", "m", "n", "o", "r", "s", "t", "u", "v",
    "oacute", "iacute">>

\* str.lower() on one character: an upper-case letter maps to its lower-case
\* form and keeps its accent; every other character is unchanged.
LowerChar(c) ==
  IF \E i \in 1..Len(UpperChars) : UpperChars[i] = c
    THEN LowerChars[CHOOSE i \in 1..Len(UpperChars) : UpperChars[i] = c]
    ELSE c

\* str.lower()
Lower(s) == [i \in 1..Len(s) |-> LowerChar(s[i])]

\* Python's `sub in s` on strings: sub occurs in s at some offset.
StrIn(sub, s) ==
  \E k \in 0..(Len(s) - Len(sub)) : \A i \in 1..Len(sub) : s[k + i] = sub[i]

\* --------------------------------------------------- process_addresses

\* The keyword list of process_addresses.
Keywords ==
  << <<"d","i","r","e","c","c","i","o","n">>,
     <<"a","d","d","r","e","s","s">>,
     <<"u","b","i","c","a","c","i","o","n">>,
     <<"d","o","m","i","c","i","l","i","o">>,
     <<"c","a","l","l","e">> >>

\* any(word in col.lower() for word in [...])
IsAddressName(col) ==
  \E w \in 1..Len(Keywords) : StrIn(Keywords[w], Lower(col))

\* A bug the detector could have: the column name is not lower-cased.
IsAddressNameNoLower(col) ==
  \E w \in 1..Len(Keywords) : StrIn(Keywords[w], col)

\* The test of one column in the loop of process_addresses.
ColumnIsFlagged(col) == IsAddressName(col)

RECURSIVE AddressLoop(_, _, _)
\* for col in df.columns: if ...: address_columns.append(col)
AddressLoop(columns, i, acc) ==
  IF i > Len(columns) THEN acc
  ELSE AddressLoop(columns, i + 1,
                   IF ColumnIsFlagged(columns[i]) THEN Append(acc, columns[i])
                   ELSE acc)

\* process_addresses(df) for a loaded Table, on its column names.
process_addresses(columns) == AddressLoop(columns, 1, <<>>)

\* ------------------------------------------------------------ the Table

\* A missing cell (NaN), a text cell and a numeric cell, as read_excel
\* produces them.
NaN == [t |-> "nan", s |-> <<>>, n |-> 0]
Str(x) == [t |-> "str", s |-> x, n |-> 0]
Num(k) == [t |-> "num", s |-> <<>>, n |-> k]

\* A DataFrame: its column labels, each column's dtype, and its rows, each
\* row one cell per column.
Table(cols, dtypes, rws) ==
  [is_none |-> FALSE, columns |-> cols, dtypes |-> dtypes, rows |-> rws]

\* load_data's `return None`.
None == [is_none |-> TRUE, columns |-> <<>>, dtypes |-> <<>>, rows |-> <<>>]

\* len(df)
NRows(t) == Len(t.rows)

\* len(df.columns)
NCols(t) == Len(t.columns)

\* isnull() on one cell
IsNull(c) == c.t = "nan"

\* The elements of seq at the positions where keep is TRUE, in order
\* (boolean-mask indexing).
RECURSIVE KeepAt(_, _, _)
KeepAt(seq, keep, i) ==
  IF i > Len(seq) THEN <<>>
  ELSE (IF keep[i] THEN <<seq[i]>> ELSE <<>>) \o KeepAt(seq, keep, i + 1)

\* The position of label `name` among the columns (labels are unique).
ColIndex(t, name) == CHOOSE j \in 1..NCols(t) : t.columns[j] = name

\* df[col] as the sequence of its cells.
Column(t, j) == [i \in 1..NRows(t) |-> t.rows[i][j]]

\* The dtype read_excel infers for column j of a sheet: object for a column
\* with no rows or with any text cell, int64 for numbers only, float64 for
\* numbers with missing cells (and for an all-missing column).
InferDType(sheet, j) ==
  IF Len(sheet.rows) = 0 THEN "object"
  ELSE IF \E i \in 1..Len(sheet.rows) : sheet.rows[i][j].t = "str" THEN "object"
  ELSE IF \E i \in 1..Len(sheet.rows) : sheet.rows[i][j].t = "nan" THEN "float64"
  ELSE "int64"

\* pd.read_excel(file) on a readable spreadsheet: header row and data rows.
read_excel(sheet) ==
  Table(sheet.columns,
        [j \in 1..Len(sheet.columns) |-> InferDType(sheet, j)],
        sheet.rows)

\* df.select_dtypes(include=['object']).columns, as column positions.
ObjectColumns(t) == KeepAt([j \in 1..NCols(t) |-> j],
                           [j \in 1..NCols(t) |-> t.dtypes[j] = "object"], 1)

\* display_df[columns_to_show]: the named columns, in the order named.
SelectColumns(t, names) ==
  Table(names,
        [k \in 1..Len(names) |-> t.dtypes[ColIndex(t, names[k])]],
        [i \in 1..NRows(t) |->
           [k \in 1..Len(names) |-> t.rows[i][ColIndex(t, names[k])]]])

\* str() of a small non-negative integer.
Digits == <<"0", "1", "2", "3", "4", "5", "6", "7", "8", "9">>
IntStr(k) == <<Digits[k + 1]>>

\* astype(str) on a cell of an object column: text is kept, a number is
\* printed, and a missing cell becomes the text "nan".
AsTypeStr(c) ==
  CASE c.t = "str" -> c.s
    [] c.t = "num" -> IntStr(c.n)
    [] OTHER -> <<"n", "a", "n">>

\* ------------------------------------------------------ str.contains

\* re.compile(pat) succeeds.  The patterns drawn here are made of literal
\* characters, "." and "(": an opening parenthesis is never closed, so a
\* pattern holding one does not compile (re.error).
RegexCompiles(pat) == \A i \in 1..Len(pat) : pat[i] # "("

\* One pattern character against one text character under re.IGNORECASE.
RegexCharMatches(p, c) ==
  IF p = "." THEN c # "\n" ELSE LowerChar(p) = LowerChar(c)

\* regex.search(x) is not None
RegexSearch(pat, x) ==
  \E k \in 0..(Len(x) - Len(pat)) :
     \A i \in 1..Len(pat) : RegexCharMatches(pat[i], x[k + i])

\* Series.astype(str).str.contains(search_term, case=False, na=False) on
\* one cell.
CellContains(c, term) == RegexSearch(term, AsTypeStr(c))

\* The mask after the loop over the object columns: row i is kept when some
\* object column's cell matches.
RowMask(t, term) ==
  [i \in 1..NRows(t) |->
     \E k \in 1..Len(ObjectColumns(t)) :
        CellContains(t.rows[i][ObjectColumns(t)[k]], term)]

\* The outcome of the search block of tab4 on display_df: the exception it
\* raises ("" when none) and the resulting frame.
\*   mask = False; for col in object columns: mask |= ...; display_df[mask]
\* With no object column mask is still the bool False and display_df[False]
\* raises KeyError; a pattern that does not compile raises re.error at the
\* first str.contains.
SearchRows(t, term) ==
  IF Len(ObjectColumns(t)) = 0
    THEN [exception |-> "KeyError", frame |-> t]
  ELSE IF ~RegexCompiles(term)
    THEN [exception |-> "re.error", frame |-> t]
  ELSE [exception |-> "",
        frame |-> Table(t.columns, t.dtypes,
                       KeepAt(t.rows, RowMask(t, term), 1))]

\* The filter block of tab4: display_df = df.copy(), the column selection
\* when columns_to_show is not empty, the search when search_term is not
\* empty.
ApplyFilters(t, names, term) ==
  LET selected == IF Len(names) > 0 THEN SelectColumns(t, names) ELSE t
  IN  IF Len(term) > 0 THEN SearchRows(selected, term)
      ELSE [exception |-> "", frame |-> selected]

\* ------------------------------------------------------------- to_csv

\* The text to_csv writes for a cell of a column with dtype `dtype`: the
\* empty text for a missing cell (na_rep), the text itself, and a number as
\* "5" in an int64 or object column and as "5.0" in a float64 column.
CsvCellText(c, dtype) ==
  CASE c.t = "str" -> c.s
    [] c.t = "num" -> IF dtype = "float64" THEN IntStr(c.n) \o <<".", "0">>
                      ELSE IntStr(c.n)
    [] OTHER -> <<>>

\* csv.QUOTE_MINIMAL: a field is quoted when it holds the delimiter, the
\* quote character or a line break.
NeedsQuote(f) == \E i \in 1..Len(f) : f[i] \in {",", "\"", "\n", "\r"}

\* The field with every quote character doubled.
RECURSIVE DoubleQuotes(_, _)
DoubleQuotes(f, i) ==
  IF i > Len(f) THEN <<>>
  ELSE (IF f[i] = "\"" THEN <<"\"", "\"">> ELSE <<f[i]>>)
       \o DoubleQuotes(f, i + 1)

\* One field as the csv writer emits it.
CsvField(f) ==
  IF NeedsQuote(f) THEN <<"\"">> \o DoubleQuotes(f, 1) \o <<"\"">> ELSE f

\* The fields joined by the delimiter.
RECURSIVE JoinFields(_, _)
JoinFields(fields, i) ==
  IF i > Len(fields) THEN <<>>
  ELSE (IF i > 1 THEN <<",">> ELSE <<>>) \o CsvField(fields[i])
       \o JoinFields(fields, i + 1)

\* csv.writer.writerow: the joined fields and the line terminator; a row
\* of one empty field is written as "" so that it is not an empty line.
CsvRow(fields) ==
  IF Len(fields) = 1 /\ fields[1] = <<>> THEN <<"\"", "\"", "\n">>
  ELSE JoinFields(fields, 1) \o <<"\n">>

\* The records to_csv(index=False) writes for a frame: the column labels,
\* then the cells of every row; no index field.
CsvRecords(t) ==
  <<t.columns>> \o
  [i \in 1..NRows(t) |->
     [j \in 1..NCols(t) |-> CsvCellText(t.rows[i][j], t.dtypes[j])]]

\* The text of the records, one line each.
RECURSIVE CsvText(_, _)
CsvText(records, i) ==
  IF i > Len(records) THEN <<>>
  ELSE CsvRow(records[i]) \o CsvText(records, i + 1)

\* display_df.to_csv(index=False)
to_csv(t) == CsvText(CsvRecords(t), 1)

\* ------------------------------------------------------- tab1: summary

\* The number of positions of seq that satisfy the mask.
CountTrue(mask) == Cardinality({i \in DOMAIN mask : mask[i]})

\* df[col].isnull().sum()
NullCount(t, j) == CountTrue([i \in 1..NRows(t) |-> IsNull(t.rows[i][j])])

RECURSIVE SumSeq(_, _)
SumSeq(seq, i) == IF i > Len(seq) THEN 0 ELSE seq[i] + SumSeq(seq, i + 1)

\* df.isnull().sum().sum()
MissingCount(t) == SumSeq([j \in 1..NCols(t) |-> NullCount(t, j)], 1)

\* A bug the metric could have: no guard at all.
CompletenessGuardAlways(t) == TRUE

\* The guard of the completeness metric: `if len(df) > 0`.
CompletenessGuard(t) == NRows(t) > 0

\* The "Completitud" metric.  Under the guard the code divides by
\* len(df) * len(df.columns); the value (1 - missing/cells) * 100 is kept
\* as an exact fraction num/den.  Without the guard nothing is rendered.
Completeness(t) ==
  IF CompletenessGuard(t)
    THEN [rendered |-> TRUE,
          divisor |-> NRows(t) * NCols(t),
          num |-> (NRows(t) * NCols(t) - MissingCount(t)) * 100,
          den |-> NRows(t) * NCols(t)]
    ELSE [rendered |-> FALSE, divisor |-> 1, num |-> 0, den |-> 1]

\* The distinct non-missing cells of a column, in order of first appearance.
RECURSIVE Uniques(_, _, _)
Uniques(col, i, acc) ==
  IF i > Len(col) THEN acc
  ELSE Uniques(col, i + 1,
               IF IsNull(col[i]) \/ (\E k \in 1..Len(acc) : acc[k] = col[i])
                 THEN acc ELSE Append(acc, col[i]))

\* df[col].nunique()
NUnique(t, j) == Len(Uniques(Column(t, j), 1, <<>>))

\* len(df[col].dropna())
ValidCount(t, j) == NRows(t) - NullCount(t, j)

\* The metrics and the column table of tab1.
Summary(t) ==
  [total_rows |-> NRows(t),
   total_columns |-> NCols(t),
   missing_count |-> MissingCount(t),
   completeness |-> Completeness(t),
   tipo |-> t.dtypes,
   unicos |-> [j \in 1..NCols(t) |-> NUnique(t, j)],
   nulos |-> [j \in 1..NCols(t) |-> NullCount(t, j)]]

\* ----------------------------------------------- tab2: column patterns

\* The three metrics of tab2 for one selected column.
ColumnPattern(t, name) ==
  LET j == ColIndex(t, name)
  IN  [col |-> name,
       total |-> ValidCount(t, j),
       unique |-> NUnique(t, j),
       duplicates |-> ValidCount(t, j) - NUnique(t, j)]

\* ------------------------------------------------ tab3: frequency table

\* The number of cells of the column equal to v.
Occurrences(col, v) == Cardinality({i \in 1..Len(col) : col[i] = v})

\* seq without its k-th element.
RemoveAt(seq, k) ==
  [i \in 1..(Len(seq) - 1) |-> IF i < k THEN seq[i] ELSE seq[i + 1]]

\* Descending by count; equal counts stay in order of first appearance.
RECURSIVE SortByCount(_)
SortByCount(seq) ==
  IF Len(seq) = 0 THEN <<>>
  ELSE LET k == CHOOSE a \in 1..Len(seq) :
                  /\ \A b \in 1..Len(seq) : seq[b].count <= seq[a].count
                  /\ \A b \in 1..(a - 1) : seq[b].count < seq[a].count
       IN  <<seq[k]>> \o SortByCount(RemoveAt(seq, k))

\* df[col].value_counts(): the distinct non-missing values with their
\* counts, most frequent first.
value_counts(col) ==
  LET u == Uniques(col, 1, <<>>)
  IN  SortByCount([k \in 1..Len(u) |->
                     [value |-> u[k], count |-> Occurrences(col, u[k])]])

\* The cap of the frequency table: .head(20)
TopValues == 20

\* A bug the cap could have: .head(n) left out.
head_left_out(seq, n) == seq

\* seq.head(n)
head(seq, n) == SubSeq(seq, 1, IF Len(seq) < n THEN Len(seq) ELSE n)

\* (x * 100).round(2) for x = count / total, in hundredths of a percent:
\* the nearest hundredth, an exact half going to the even one.
Round2(count, total) ==
  LET q == (count * 10000) \div total
      r2 == 2 * ((count * 10000) % total)
  IN  IF r2 > total \/ (r2 = total /\ q % 2 = 1) THEN q + 1 ELSE q

\* The rows of freq_table: value, Frecuencia, Porcentaje (count / len(df)).
FreqTable(t, name) ==
  LET vc == head(value_counts(Column(t, ColIndex(t, name))), TopValues)
  IN  [k \in 1..Len(vc) |->
         [value |-> vc[k].value,
          count |-> vc[k].count,
          pct |-> Round2(vc[k].count, NRows(t))]]

\* ------------------------------------------------------ tab4: slider

\* The minimum of the slider "Numero de filas a mostrar".
SliderMin == 10

\* The cap of the slider's default value: min(100, len(df)).
SliderDefaultCap == 100

\* The arguments of st.slider(label, 10, len(df), min(100, len(df))).
SliderArgs(t) ==
  [min_value |-> SliderMin,
   max_value |-> NRows(t),
   value |-> IF SliderDefaultCap < NRows(t) THEN SliderDefaultCap ELSE NRows(t)]

\* The smaller and the larger of two numbers.
Min2(a, b) == IF a < b THEN a ELSE b
Max2(a, b) == IF a < b THEN b ELSE a

\* What st.slider can do with the arguments, by Streamlit release: the
\* range the user picks the value from, or a StreamlitAPIException.  With
\* minimum < maximum and the default between them the slider is rendered.
\* Otherwise a release either rejects the arguments, or widens the bounds
\* to hold one another and the default (min_value = min(min_value,
\* max_value, value), likewise max_value) and returns a value from them.
SliderOutcomes(a) ==
  IF a.min_value < a.max_value /\ a.min_value <= a.value
       /\ a.value <= a.max_value
    THEN {[raises |-> FALSE, lo |-> a.min_value, hi |-> a.max_value]}
  ELSE {[raises |-> TRUE, lo |-> 0, hi |-> 0],
        [raises |-> FALSE,
         lo |-> Min2(Min2(a.min_value, a.max_value), a.value),
         hi |-> Max2(Min2(a.min_value, a.max_value),
                     Max2(a.max_value, a.value))]}

\* ------------------------------------------------- spreadsheets drawn

NameDireccion == <<"D", "i", "r", "e", "c", "c", "i", "o", "n">>
NameDireccionAcento == <<"D", "i", "r", "e", "c", "c", "i", "oacute", "n">>
NameDireccionEnvio ==
  <<"D", "I", "R", "E", "C", "C", "I", "Oacute", "N", "_",
    "E", "N", "V", "Iacute", "O">>
NameUbicacionAcento == <<"U", "b", "i", "c", "a", "c", "i", "oacute", "n">>
NameUbicacion == <<"u", "b", "i", "c", "a", "c", "i", "o", "n">>
NameAddress == <<"A", "D", "D", "R", "E", "S", "S">>
NameDomicilio == <<"D", "o", "m", "i", "c", "i", "l", "i", "o">>
NameCalle == <<"C", "a", "l", "l", "e", "_", "2">>
NameLaCalle == <<"l", "a", "_", "C", "A", "L", "L", "E">>
NameCale == <<"c", "a", "l", "e">>
NameStreet == <<"s", "t", "r", "e", "e", "t">>
NameNombre == <<"n", "o", "m", "b", "r", "e">>
NameComa == <<"a", ",", "b">>

\* The column labels the address detector is run on.
NamePool ==
  {NameDireccion, NameDireccionAcento, NameDireccionEnvio, NameUbicacionAcento,
   NameUbicacion, NameAddress, NameDomicilio, NameCalle, NameLaCalle,
   NameCale, NameStreet, NameNombre}

\* The sequences of at most n distinct elements of S.
DistinctSeqs(S, n) ==
  {q \in UNION {[1..k -> S] : k \in 0..n} :
     \A a, b \in 1..Len(q) : a # b => q[a] # q[b]}

TextCalleMayor ==
  <<"C", "a", "l", "l", "e", " ", "M", "a", "y", "o", "r", " ", "5">>
TextAvLibertad ==
  <<"A", "v", ".", " ", "L", "i", "b", "e", "r", "t", "a", "d">>
TextComillas == <<"a", ",", "\"", "\n">>

\* The cells the drawn spreadsheets are filled with.
CellPool ==
  <<Str(TextCalleMayor), NaN, Str(TextAvLibertad), Num(5), Str(TextComillas)>>

\* The column labels of the drawn spreadsheets.
SheetNames == <<NameCalle, NameComa>>

\* A spreadsheet of r rows and c columns filled from CellPool: the cell of
\* row i, column j is the pool's entry (i-1)*step + (j-1) + first, cyclically
\* (step 0: every row the same; step 1: the rows run through the pool).
PatternSheet(r, c, step, first) ==
  [columns |-> SubSeq(SheetNames, 1, c),
   rows |-> [i \in 1..r |->
               [j \in 1..c |->
                  CellPool[(((i - 1) * step + (j - 1) + first)
                            % Len(CellPool)) + 1]]]]

\* The numbers of rows of the drawn spreadsheets: a few, and the slider's
\* minimum or a few more.
SheetRowCounts ==
  (0..MaxSmallRows) \cup (SliderMin..(SliderMin + MaxRowsOver))

\* The readable spreadsheets of the script runs: an empty sheet, and
\* sheets of one or two columns.
Sheets ==
  {[columns |-> <<>>, rows |-> <<>>]} \cup
  {PatternSheet(r, c, step, first) :
     r \in SheetRowCounts, c \in 1..Len(SheetNames),
     step \in {0, 1}, first \in 0..(Len(CellPool) - 1)}

\* No file in the uploader.
NoFile == [present |-> FALSE, valid |-> FALSE,
           sheet |-> [columns |-> <<>>, rows |-> <<>>]]

\* An uploaded file that cannot be read as a spreadsheet.
BadFile == [present |-> TRUE, valid |-> FALSE,
            sheet |-> [columns |-> <<>>, rows |-> <<>>]]

\* An uploaded file holding a readable sheet.
GoodFile(sheet) == [present |-> TRUE, valid |-> TRUE, sheet |-> sheet]

\* The files a user uploads.
Files == {BadFile} \cup {GoodFile(sh) : sh \in Sheets}

\* The search terms typed: none, a word in another case, the text "nan",
\* a pattern with a wildcard and one that is no regular expression.
Terms ==
  {<<>>, <<"m", "a", "y", "o", "r">>, <<"n", "a", "n">>, <<"y", ".", "r">>,
   <<"(">>}

\* What a multiselect over the columns of t can return.
Selections(t) == DistinctSeqs({t.columns[j] : j \in 1..NCols(t)}, NCols(t))

\* ---------------------------------------------------------------- state

VARIABLES
  uploaded_file,    \* the file in the sidebar uploader
  cache,            \* st.cache_data of load_data: entries file -> result
  df,               \* load_data's result in the current run
  pc,               \* where the script run stands
  cache_hit,        \* the current run's df came from the cache
  st_error,         \* load_data reported "Error al cargar el archivo"
  exception,        \* the exception that ended the run ("" when none)
  ran,              \* the report operations executed in the current run
  summary,          \* tab1: metrics and column table
  address_cols,     \* tab1: process_addresses(df)
  pattern,          \* tab2: the metrics of each selected column
  selected_categorical, \* tab3: the categorical column chosen
  cat_chart_type,   \* tab3: the chart kind chosen
  freq_table,       \* tab3: value, Frecuencia, Porcentaje
  show_rows,        \* tab4: the slider's value
  columns_to_show,  \* tab4: the multiselect's value
  search_term,      \* tab4: the text input's value
  display_df,       \* tab4: the filtered frame
  shown,            \* tab4: the rows of display_df.head(show_rows)
  csv               \* tab4: the text handed to the download button

vars ==
  <<uploaded_file, cache, df, pc, cache_hit, st_error, exception, ran,
    summary, address_cols, pattern, selected_categorical, cat_chart_type,
    freq_table, show_rows, columns_to_show, search_term, display_df, shown,
    csv>>

\* What a run has rendered before any tab is reached.
NoSummary == Summary(None)

\* A run starts with nothing rendered.
Blank ==
  /\ cache_hit' = FALSE
  /\ st_error' = FALSE
  /\ exception' = ""
  /\ ran' = {}
  /\ summary' = NoSummary
  /\ address_cols' = <<>>
  /\ pattern' = <<>>
  /\ selected_categorical' = <<>>
  /\ cat_chart_type' = ""
  /\ freq_table' = <<>>
  /\ show_rows' = 0
  /\ columns_to_show' = <<>>
  /\ search_term' = <<>>
  /\ display_df' = None
  /\ shown' = <<>>
  /\ csv' = <<>>

\* The state in which a run starts: file f in the uploader, nothing
\* rendered, nothing cached.
FirstRun(f, at) ==
  /\ uploaded_file = f
  /\ cache = {}
  /\ df = None
  /\ pc = at
  /\ cache_hit = FALSE
  /\ st_error = FALSE
  /\ exception = ""
  /\ ran = {}
  /\ summary = NoSummary
  /\ address_cols = <<>>
  /\ pattern = <<>>
  /\ selected_categorical = <<>>
  /\ cat_chart_type = ""
  /\ freq_table = <<>>
  /\ show_rows = 0
  /\ columns_to_show = <<>>
  /\ search_term = <<>>
  /\ display_df = None
  /\ shown = <<>>
  /\ csv = <<>>

\* The page before any upload: the instructions of the else branch.
Init == FirstRun(NoFile, "home")

\* The run is over: the page shows the instructions, the tabs, or an error.
Idle == pc \in {"home", "done", "error"}

\* The user puts a file in the uploader, which re-runs the script.  A
\* session works on one spreadsheet: once a file is cached only that file
\* is uploaded again.
Upload(f) ==
  /\ Idle
  /\ cache = {} \/ \E e \in cache : e.file = f
  /\ uploaded_file' = f
  /\ pc' = "load"
  /\ df' = None
  /\ Blank
  /\ UNCHANGED cache

\* The user removes the file: the run takes the else branch.
RemoveFile ==
  /\ Idle
  /\ uploaded_file.present
  /\ uploaded_file' = NoFile
  /\ pc' = "home"
  /\ df' = None
  /\ Blank
  /\ UNCHANGED cache

\* Any widget interaction re-runs the script on the same file.
Rerun ==
  /\ pc \in {"done", "error"}
  /\ uploaded_file.present
  /\ pc' = "load"
  /\ df' = None
  /\ Blank
  /\ UNCHANGED <<uploaded_file, cache>>

\* The body of load_data: the parsed frame, or st.error and None.
load_data(file) ==
  IF file.valid THEN [value |-> read_excel(file.sheet), error |-> FALSE]
  ELSE [value |-> None, error |-> TRUE]

\* A bug the main guard could have: the tabs are rendered whatever df is.
MainGuardAlways(d) == TRUE

\* `if df is not None:`
MainGuard(d) == ~d.is_none

\* df = load_data(uploaded_file) under st.cache_data, then the guard of the
\* main content.  A cached result is returned (and its st.error replayed)
\* without running the body.
LoadData ==
  /\ pc = "load"
  /\ LET hit == {e \in cache : e.file = uploaded_file}
         res == IF hit # {} THEN (CHOOSE e \in hit : TRUE).result
                ELSE load_data(uploaded_file)
     IN  /\ cache' = cache \cup {[file |-> uploaded_file, result |-> res]}
         /\ df' = res.value
         /\ cache_hit' = (hit # {})
         /\ st_error' = res.error
         /\ pc' = IF MainGuard(res.value) THEN "tab1" ELSE "done"
  /\ UNCHANGED <<uploaded_file, exception, ran, summary, address_cols,
                 pattern, selected_categorical, cat_chart_type, freq_table,
                 show_rows, columns_to_show, search_term, display_df, shown,
                 csv>>

\* tab1: the four metrics, the column table and the detected address columns.
Tab1 ==
  /\ pc = "tab1"
  /\ summary' = Summary(df)
  /\ address_cols' = process_addresses(df.columns)
  /\ ran' = ran \cup {"summary", "address_scan"}
  /\ pc' = "tab2"
  /\ UNCHANGED <<uploaded_file, cache, df, cache_hit, st_error, exception, pattern,
                 selected_categorical, cat_chart_type, freq_table, show_rows, columns_to_show,
                 search_term, display_df, shown, csv>>

\* tab2: the multiselect (default: the detected columns) and the metrics of
\* every selected column.  The word list, its chart and the sample of
\* addresses are renderings of df and are not kept.
Tab2 ==
  /\ pc = "tab2"
  /\ \E address_columns \in {process_addresses(df.columns), df.columns} :
       /\ pattern' = [k \in 1..Len(address_columns) |->
                        ColumnPattern(df, address_columns[k])]
       /\ ran' = IF Len(address_columns) > 0
                   THEN ran \cup {"column_pattern"} ELSE ran
  /\ pc' = "tab3"
  /\ UNCHANGED <<uploaded_file, cache, df, cache_hit, st_error, exception, summary,
                 address_cols, selected_categorical, cat_chart_type, freq_table, show_rows,
                 columns_to_show, search_term, display_df, shown, csv>>

\* The kinds of chart of a categorical column.
CatChartTypes == {"Barras", "Pie", "Tabla de Frecuencias"}

\* tab3, categorical part: with an object column, the selected column's
\* value_counts().head(20) feeds a chart or the frequency table.  The
\* charts, and the numeric part of the tab, are renderings of df and are
\* not kept.
Tab3 ==
  /\ pc = "tab3"
  /\ IF Len(ObjectColumns(df)) = 0
       THEN UNCHANGED <<selected_categorical, cat_chart_type, freq_table,
                        ran>>
       ELSE \E k \in 1..Len(ObjectColumns(df)), kind \in CatChartTypes :
              /\ selected_categorical' = df.columns[ObjectColumns(df)[k]]
              /\ cat_chart_type' = kind
              /\ freq_table' =
                   IF kind = "Tabla de Frecuencias"
                     THEN FreqTable(df, df.columns[ObjectColumns(df)[k]])
                     ELSE <<>>
              /\ ran' = ran \cup {"chart_aggregate"}
  /\ pc' = "tab4"
  /\ UNCHANGED <<uploaded_file, cache, df, cache_hit, st_error, exception, summary,
                 address_cols, pattern, show_rows, columns_to_show,
                 search_term, display_df, shown, csv>>

\* tab4: the slider of the number of rows to show.  When st.slider raises,
\* the run ends there.
Tab4Slider ==
  /\ pc = "tab4"
  /\ \E outcome \in SliderOutcomes(SliderArgs(df)) :
       IF outcome.raises
         THEN /\ exception' = "StreamlitAPIException"
              /\ pc' = "error"
              /\ UNCHANGED show_rows
         ELSE /\ \E v \in outcome.lo..outcome.hi : show_rows' = v
              /\ pc' = "tab4_filter"
              /\ UNCHANGED exception
  /\ UNCHANGED <<uploaded_file, cache, df, cache_hit, st_error, ran, summary,
                 address_cols, pattern, selected_categorical, cat_chart_type,
                 freq_table, columns_to_show, search_term, display_df, shown,
                 csv>>

\* A bug the filter block could have: it filters df itself.
DfAfterFiltersRebound(t, filtered) == filtered

\* df after the filter block: the block works on display_df = df.copy()
\* and rebinds display_df only.
DfAfterFilters(t, filtered) == t

\* tab4: column selection, search, and the data view.  An exception of the
\* search ends the run before anything is shown.
Tab4Filter ==
  /\ pc = "tab4_filter"
  /\ \E names \in Selections(df), term \in Terms :
       LET res == ApplyFilters(df, names, term)
       IN  /\ columns_to_show' = names
           /\ search_term' = term
           /\ exception' = res.exception
           /\ df' = DfAfterFilters(df, res.frame)
           /\ IF res.exception # ""
                THEN /\ pc' = "error"
                     /\ UNCHANGED <<display_df, shown, ran>>
                ELSE /\ display_df' = res.frame
                     /\ shown' = head(res.frame.rows, show_rows)
                     /\ ran' = ran \cup {"filter"}
                     /\ pc' = "tab4_button"
  /\ UNCHANGED <<uploaded_file, cache, cache_hit, st_error, summary, address_cols,
                 pattern, selected_categorical, cat_chart_type, freq_table, show_rows, csv>>

\* A bug the export could have: only the rows on display are written.
ExportedFrameShown(t, rws) == Table(t.columns, t.dtypes, rws)

\* The frame the download writes: display_df, all of its rows.
ExportedFrame(t, rws) == t

\* tab4: the button "Descargar datos filtrados"; when it was clicked the
\* CSV text of display_df is handed to the download button.
Tab4Download ==
  /\ pc = "tab4_button"
  /\ \/ UNCHANGED <<csv, ran>>
     \/ /\ csv' = to_csv(ExportedFrame(display_df, shown))
        /\ ran' = ran \cup {"export"}
  /\ pc' = "done"
  /\ UNCHANGED <<uploaded_file, cache, df, cache_hit, st_error, exception, summary,
                 address_cols, pattern, selected_categorical, cat_chart_type, freq_table, show_rows,
                 columns_to_show, search_term, display_df, shown>>

Next ==
  \/ \E f \in Files : Upload(f)
  \/ RemoveFile
  \/ Rerun
  \/ LoadData
  \/ Tab1
  \/ Tab2
  \/ Tab3
  \/ Tab4Slider
  \/ Tab4Filter
  \/ Tab4Download

\* The script runs of a session.
Spec == Init /\ [][Next]_vars

\* ------------------------------------------ runs of the address detector

\* A session that uploads a header-only sheet with the drawn column labels
\* and runs the script up to tab1.
InitDetect ==
  \E cols \in DistinctSeqs(NamePool, MaxNames) :
     FirstRun(GoodFile([columns |-> cols, rows |-> <<>>]), "load")

NextDetect ==
  \/ LoadData
  \/ Tab1

SpecDetect == InitDetect /\ [][NextDetect]_vars

\* ------------------------------------------- runs of the frequency table

\* The cells a short column is drawn from.
FreqValues == {NaN, Str(<<"a">>), Str(<<"b">>), Str(<<"c">>)}

\* The k-th of the distinct values of a long column: k as two digits.
TwoDigits(k) == Str(<<Digits[(k \div 10) + 1], Digits[(k % 10) + 1]>>)

\* A column of d distinct values, the last of them repeated `extra` times
\* more at the end.
LongColumn(d, extra) ==
  [i \in 1..(d + extra) |-> TwoDigits(IF i <= d THEN i ELSE d)]

\* The columns the frequency table is computed on.
FreqColumns ==
  UNION {[1..n -> FreqValues] : n \in 0..MaxFreqRows}
  \cup {LongColumn(d, extra) : d \in 1..MaxDistinct, extra \in 0..MaxRepeat}

\* A session that uploads a one-column sheet and runs the script up to tab3.
InitFreq ==
  \E col \in FreqColumns :
     FirstRun(GoodFile([columns |-> <<NameCalle>>,
                        rows |-> [i \in 1..Len(col) |-> <<col[i]>>]]),
              "load")

NextFreq ==
  \/ LoadData
  \/ Tab1
  \/ Tab2
  \/ Tab3

SpecFreq == InitFreq /\ [][NextFreq]_vars

\* ================================================================ claims

\* ------------------------------------------------------------------- C1

\* The text of a present cell.
CellText(c) == IF c.t = "num" THEN IntStr(c.n) ELSE c.s

\* The rows the row filter is to retain: those in which some selected
\* text-typed column holds a value containing the term as a literal
\* substring, letter case ignored; in their original order.
LiteralRows(t, names, term) ==
  LET sel == IF Len(names) > 0 THEN SelectColumns(t, names) ELSE t
  IN  KeepAt(sel.rows,
             [i \in 1..NRows(sel) |->
                \E j \in 1..NCols(sel) :
                   /\ sel.dtypes[j] = "object"
                   /\ ~IsNull(sel.rows[i][j])
                   /\ StrIn(Lower(term), Lower(CellText(sel.rows[i][j])))],
             1)

\* C1: for every Table, column selection and non-empty search term the
\* filter completes and retains exactly the rows in which some selected
\* text-typed column's value contains the term literally, case ignored.
\* Stated on the Tables with more rows than the slider's minimum, for which
\* every Streamlit release renders the slider and the run reaches the filter.
C1_FilterRetainsLiteralMatches ==
  (NRows(df) > SliderMin /\ Len(search_term) > 0
     /\ pc \in {"tab4_button", "done", "error"})
    => /\ exception = ""
       /\ display_df.rows = LiteralRows(df, columns_to_show, search_term)

\* ------------------------------------------------------------------- C2

\* C2: a row whose selected text-typed cells are all missing is never
\* retained by a search, whatever the term, and the search does not fail on
\* a missing cell.  Stated, as C1, on the Tables with more rows than the
\* slider's minimum.
C2_MissingNeverMatches ==
  (NRows(df) > SliderMin /\ Len(search_term) > 0 /\ "filter" \in ran)
    => \A i \in 1..NRows(display_df) :
          \E j \in 1..NCols(display_df) :
             /\ display_df.dtypes[j] = "object"
             /\ ~IsNull(display_df.rows[i][j])

\* ------------------------------------------------------------------- C3

\* The keyword set of the address detector, as the specification lists it.
AddressKeywords ==
  {<<"d", "i", "r", "e", "c", "c", "i", "o", "n">>,
   <<"a", "d", "d", "r", "e", "s", "s">>,
   <<"u", "b", "i", "c", "a", "c", "i", "o", "n">>,
   <<"d", "o", "m", "i", "c", "i", "l", "i", "o">>,
   <<"c", "a", "l", "l", "e">>}

\* The lowercased form of the name contains a keyword.
HasKeyword(name) ==
  \E w \in AddressKeywords :
     \E k \in 0..(Len(name) - Len(w)) :
        \A i \in 1..Len(w) : LowerChar(name[k + i]) = w[i]

StripAccent(c) ==
  CASE c = "Oacute" -> "O"
    [] c = "oacute" -> "o"
    [] c = "Iacute" -> "I"
    [] c = "iacute" -> "i"
    [] OTHER -> c

\* The name with its accents normalized.
StripAccents(name) == [i \in 1..Len(name) |-> StripAccent(name[i])]

\* C4: a column whose name contains a keyword once accents are normalized
\* is flagged, and a name containing no keyword is not.
C4_AccentedNamesFlagged ==
  "address_scan" \in ran
    => \A j \in 1..NCols(df) :
          HasKeyword(StripAccents(df.columns[j]))
            <=> \E k \in 1..Len(address_cols) : address_cols[k] = df.columns[j]

\* ------------------------------------------------------------------- C5

\* The missing cells of the uploaded sheet.
SheetMissing(sheet) ==
  Cardinality({ij \in (1..Len(sheet.rows)) \X (1..Len(sheet.columns)) :
                 sheet.rows[ij[1]][ij[2]].t = "nan"})

\* The cells of the uploaded sheet.
SheetCells(sheet) == Len(sheet.rows) * Len(sheet.columns)

\* C5: with rows x columns > 0 the completeness shown is
\* (1 - missing / (rows x columns)) x 100; with rows x columns = 0 no
\* division is made and no value is shown.
C5_CompletenessTotal ==
  "summary" \in ran
    => LET c == summary.completeness
           cells == SheetCells(uploaded_file.sheet)
           missing == SheetMissing(uploaded_file.sheet)
       IN  IF cells > 0
             THEN /\ c.rendered
                  /\ c.divisor = cells
                  /\ c.num * cells = (cells - missing) * 100 * c.den
             ELSE ~c.rendered

\* C5's case: a table with missing cells whose completeness is shown.
C5_Witness ==
  /\ "summary" \in ran
  /\ summary.completeness.rendered
  /\ summary.missing_count > 0
  /\ summary.completeness.num < 100 * summary.completeness.den

\* ------------------------------------------------------------------- C6

\* The column of the uploaded sheet the frequency table was made from.
ChosenColumn ==
  LET sheet == uploaded_file.sheet
      j == CHOOSE k \in 1..Len(sheet.columns) :
             sheet.columns[k] = selected_categorical
  IN  [i \in 1..Len(sheet.rows) |-> sheet.rows[i][j]]

\* The non-missing values of a column.
PresentValues(col) == {col[i] : i \in {k \in 1..Len(col) : col[k].t # "nan"}}

\* The percentages of the table's rows, summed (hundredths of a percent).
PctSum == SumSeq([k \in 1..Len(freq_table) |-> freq_table[k].pct], 1)

\* The frequency table is shown.
FreqTableShown ==
  "chart_aggregate" \in ran /\ cat_chart_type = "Tabla de Frecuencias"

\* The table lists at most 20 distinct values, the most frequent ones, in
\* descending count, each with its count in the column.
TopTwentyDescending ==
  LET col == ChosenColumn
      listed == {freq_table[k].value : k \in 1..Len(freq_table)}
  IN  /\ Len(freq_table) <= 20
      /\ Len(freq_table) = IF Cardinality(PresentValues(col)) < 20
                             THEN Cardinality(PresentValues(col)) ELSE 20
      /\ Cardinality(listed) = Len(freq_table)
      /\ listed \subseteq PresentValues(col)
      /\ \A k \in 1..Len(freq_table) :
            freq_table[k].count =
              Cardinality({i \in 1..Len(col) : col[i] = freq_table[k].value})
      /\ \A k \in 1..(Len(freq_table) - 1) :
            freq_table[k].count >= freq_table[k + 1].count
      /\ \A v \in PresentValues(col) \ listed :
            \A k \in 1..Len(freq_table) :
               Cardinality({i \in 1..Len(col) : col[i] = v})
                 <= freq_table[k].count

\* Each percentage is count / row_count x 100 to the nearest hundredth.
PercentagesRounded ==
  LET n == Len(uploaded_file.sheet.rows)
  IN  \A k \in 1..Len(freq_table) :
         LET d == freq_table[k].pct * n - freq_table[k].count * 10000
         IN  2 * d <= n /\ -(2 * d) <= n

\* C6 as stated: at most the 20 most frequent values in descending count,
\* each percentage count / row_count x 100 rounded to 2 decimals, and the
\* percentages summing to at most 100.
C6_PercentagesSumAtMost100 ==
  FreqTableShown
    => TopTwentyDescending /\ PercentagesRounded /\ PctSum <= 10000

\* C6 as amended: the same, with the rounded percentages summing to at most
\* 100 plus 0.005 for every listed row.
C6_FrequencyTable ==
  FreqTableShown
    => /\ TopTwentyDescending
       /\ PercentagesRounded
       /\ 2 * PctSum <= 20000 + Len(freq_table)

\* C6's case: more than 20 distinct values, the most frequent of them met
\* last, and the table cut to 20 rows with that value first.
C6_Witness ==
  /\ FreqTableShown
  /\ Cardinality(PresentValues(ChosenColumn)) > 20
  /\ Len(freq_table) = 20
  /\ freq_table[1].count > 1
  /\ freq_table[1].value = ChosenColumn[Len(ChosenColumn)]

\* ------------------------------------------------------------------- C7

\* C7: when the upload cannot be parsed, load_data reports the error and
\* returns no Table, and the run executes no report operation.
C7_FailedParseNoReport ==
  (uploaded_file.present /\ ~uploaded_file.valid /\ pc # "load")
    => /\ df = None
       /\ st_error
       /\ ran = {}
       /\ pc = "done"
       /\ display_df = None
       /\ csv = <<>>

\* C7's case: a run on an unreadable file is over, also when the failed
\* load was answered from the cache.
C7_Witness ==
  /\ uploaded_file = BadFile
  /\ pc = "done"
  /\ cache_hit
  /\ st_error

\* ------------------------------------------------------------------- C8

\* csv.reader on one record starting at position i: its fields and the
\* position after its line break.  A quote opens a quoted field at the
\* field's start, a doubled quote inside one is a quote, and an empty line
\* is a record of no field.
RECURSIVE csv_record(_, _, _, _, _, _)
csv_record(text, i, rec, fld, mode, blank) ==
  IF i > Len(text)
    THEN [fields |-> IF blank THEN <<>> ELSE Append(rec, fld), next |-> i]
  ELSE LET c == text[i]
       IN  IF mode = "quoted"
             THEN IF c = "\""
                    THEN csv_record(text, i + 1, rec, fld, "quote", FALSE)
                    ELSE csv_record(text, i + 1, rec, Append(fld, c),
                                    "quoted", FALSE)
           ELSE IF mode = "quote" /\ c = "\""
             THEN csv_record(text, i + 1, rec, Append(fld, c), "quoted", FALSE)
           ELSE IF c = ","
             THEN csv_record(text, i + 1, Append(rec, fld), <<>>, "field",
                             FALSE)
           ELSE IF c = "\n"
             THEN [fields |-> IF blank THEN <<>> ELSE Append(rec, fld),
                   next |-> i + 1]
           ELSE IF c = "\"" /\ mode = "field" /\ Len(fld) = 0
             THEN csv_record(text, i + 1, rec, fld, "quoted", FALSE)
           ELSE csv_record(text, i + 1, rec, Append(fld, c), "field", FALSE)

\* csv.reader on the text from position i on: the records in order.
RECURSIVE csv_reader(_, _, _)
csv_reader(text, i, recs) ==
  IF i > Len(text) THEN recs
  ELSE LET r == csv_record(text, i, <<>>, <<>>, "field", TRUE)
       IN  csv_reader(text, r.next, Append(recs, r.fields))

\* The texts a cell may come back as: its own text, the empty text for a
\* missing cell, and a number as an integer or a decimal numeral.
Stringifications(c) ==
  CASE c.t = "str" -> {c.s}
    [] c.t = "num" -> {IntStr(c.n), IntStr(c.n) \o <<".", "0">>}
    [] OTHER -> {<<>>}

\* C8: the exported CSV is a header of the selected column names in order
\* and one record per retained row, without an index field, and parsing it
\* gives back the filtered Table's values and column order, up to the
\* stringification of types.
C8_CsvRoundTrip ==
  "export" \in ran
    => LET recs == csv_reader(csv, 1, <<>>)
           kept == ApplyFilters(read_excel(uploaded_file.sheet),
                                columns_to_show, search_term).frame
       IN  /\ Len(recs) = 1 + NRows(kept)
           /\ recs[1] = IF Len(columns_to_show) > 0 THEN columns_to_show
                         ELSE uploaded_file.sheet.columns
           /\ \A i \in 1..NRows(kept) :
                 /\ Len(recs[i + 1]) = NCols(kept)
                 /\ \A j \in 1..NCols(kept) :
                       recs[i + 1][j] \in Stringifications(kept.rows[i][j])

\* C8's case: a search retained more rows than the view shows, among them
\* cells holding a comma, a quote and a line break, and the CSV was made.
C8_Witness ==
  /\ "export" \in ran
  /\ Len(search_term) > 0
  /\ NRows(display_df) > show_rows
  /\ \E j \in 1..NCols(display_df) :
        display_df.rows[NRows(display_df)][j] = Str(TextComillas)

\* ------------------------------------------------------------------- C9

\* C9: whatever report operations have run, and whether the Table came from
\* the cache or was parsed, the loaded Table is the parsed sheet and every
\* result is that of its operation on the parsed sheet and its arguments.
C9_ReportOperationsPure ==
  (uploaded_file.valid /\ pc \notin {"home", "load"})
    => LET t == read_excel(uploaded_file.sheet)
       IN  /\ df = t
           /\ "summary" \in ran => summary = Summary(t)
           /\ "address_scan" \in ran =>
                 address_cols = process_addresses(t.columns)
           /\ "column_pattern" \in ran =>
                 \A k \in 1..Len(pattern) :
                    pattern[k] = ColumnPattern(t, pattern[k].col)
           /\ FreqTableShown => freq_table = FreqTable(t, selected_categorical)
           /\ "filter" \in ran =>
                 display_df =
                   ApplyFilters(t, columns_to_show, search_term).frame
           /\ "export" \in ran => csv = to_csv(display_df)

\* C9's case: the Table came from the cache, and a search that dropped rows
\* and a column selection were followed by the export.
C9_Witness ==
  /\ cache_hit
  /\ "export" \in ran
  /\ NRows(display_df) < NRows(df)
  /\ NRows(display_df) > 0
  /\ NCols(display_df) < NCols(df)

\* ------------------------------------------------------------------ C10

\* C10: for every loaded Table the slider's arguments satisfy
\* minimum <= default <= maximum, and the data view is rendered.
C10_SliderWellFormed ==
  /\ pc = "tab4"
       => /\ SliderArgs(df).min_value <= SliderArgs(df).value
          /\ SliderArgs(df).value <= SliderArgs(df).max_value
  /\ exception # "StreamlitAPIException"

====
